---- MODULE Spec2Model ----
(***************************************************************************)
(* GlobalDormClient (src/client/src/client.py): the request dispatcher     *)
(* make_request, the domain facade built on it, the constructor's health   *)
(* probe and the filter menu of main.                                      *)
(*                                                                         *)
(* A call blocks on the HTTP exchange: the client transmits the request    *)
(* (one of the call actions) and the handler resumes when the exchange     *)
(* ends (Respond), with whatever the service, or the network, produced.    *)
(***************************************************************************)
EXTENDS Integers, Sequences, FiniteSets, TLC

\* pc              where the client is: "new", "probing" (health probe on the
\*                 wire), "ready", "waiting" (a call blocks on its exchange)
\* modernRequests  the installed requests library is 2.27 or later
\* probe, warned   how the health probe ended; the warning was printed
\* calls           operations issued so far
\* sent            the wire log: for each request sent, the call it belongs to
\* pending         the call that is waiting for its exchange to end
\* last            the operation that ended last: its inputs, the outcome of
\*                 its exchange, what make_request and the facade returned
\* apps            the service's applications (service runs only)
\* confirmed       per application, the cancel_application calls that
\*                 returned True (service runs only)
VARIABLES pc, modernRequests, probe, warned, calls, sent, pending, last,
          apps, confirmed

vars ==
    <<pc, modernRequests, probe, warned, calls, sent, pending, last, apps, confirmed>>

(* ------------------------------ bounds --------------------------------- *)

\* number of operations one run of the client issues
MaxCalls == 2

\* longest rooms / applications sequence the service returns
MaxRooms == 2

(* ------------------------------ strings -------------------------------- *)

\* A string is a sequence of characters.
GET == <<"G", "E", "T">>
POST == <<"P", "O", "S", "T">>
DELETE == <<"D", "E", "L", "E", "T", "E">>

\* str.upper(), character by character
UpperChar(c) ==
    CASE c = "g" -> "G"
      [] c = "e" -> "E"
      [] c = "t" -> "T"
      [] c = "p" -> "P"
      [] c = "o" -> "O"
      [] c = "s" -> "S"
      [] c = "d" -> "D"
      [] c = "l" -> "L"
      [] c = "u" -> "U"
      [] OTHER -> c

Upper(s) == [i \in 1..Len(s) |-> UpperChar(s[i])]

\* str.strip(): leading and trailing whitespace removed
RECURSIVE LStrip(_)
LStrip(s) == IF s # <<>> /\ Head(s) = " " THEN LStrip(Tail(s)) ELSE s

RECURSIVE RStrip(_)
RStrip(s) ==
    IF s # <<>> /\ s[Len(s)] = " " THEN RStrip(SubSeq(s, 1, Len(s) - 1)) ELSE s

Strip(s) == RStrip(LStrip(s))

\* the verbs a caller may hand to make_request
Methods ==
    {GET, POST, DELETE, <<"g", "e", "t">>, <<"P", "o", "s", "t">>,
     <<"P", "U", "T">>, <<>>}

\* what the user may type at a filter prompt
RawInputs == {<<>>, <<" ">>, <<" ", "x", " ">>}

\* values of a filter mapping handed to search_rooms directly
FilterValues == {<<>>, <<"x">>}

\* the filter keys of the menu (furnished and language are built by the same
\* statement as these two)
FilterKeys == {"city", "max_price"}

(* ------------------------------- values -------------------------------- *)

\* Python's None, and an optional mapping (params / filters)
NoParams == [t |-> "None", d |-> [k \in {} |-> <<>>]]

Dict(f) == [t |-> "dict", d |-> f]

FilterDicts ==
    {Dict(f) : f \in UNION {[S -> FilterValues] : S \in SUBSET FilterKeys}}

\* an entity of a response (Room, Application, DistanceInfo, WeatherInfo):
\* complete iff it carries every key the client reads from it
\* status and cancelled_date are read from Application entities only
Application(id, status) ==
    [id |-> id, complete |-> TRUE, status |-> status,
     cancelled_date |-> (status = "cancelled")]

Entity(id, complete) ==
    [id |-> id, complete |-> complete, status |-> "pending", cancelled_date |-> FALSE]

Entities == {Entity("a", TRUE), Entity("b", TRUE), Entity("c", FALSE)}

NoEntity == Entity("none", FALSE)

\* the sequences of distinct entities, in every order
EntitySeqs ==
    {s \in UNION {[1..n -> Entities] : n \in 0..MaxRooms} :
        \A i, j \in 1..Len(s) : s[i] = s[j] => i = j}

\* the per-endpoint payload field of an envelope
Payloads ==
    {[t |-> "absent", items |-> <<>>, entity |-> NoEntity]}
    \cup {[t |-> "list", items |-> s, entity |-> NoEntity] : s \in EntitySeqs}
    \cup {[t |-> "entity", items |-> <<>>, entity |-> e] : e \in Entities}

NoPayload == [t |-> "absent", items |-> <<>>, entity |-> NoEntity]

\* a response body: no content, text that is not JSON, or a JSON value
\* (object, array, scalar, null).  truthy is Python's truth value of the
\* parsed value; an object is true iff it has a key.
Flag == {"absent", "true", "false"}

Messages == {"absent", "boom"}

\* a JSON object: an envelope.  An envelope that carries a message carries
\* no payload or a one-element one.
Object(s, m, p) ==
    [t |-> "object", truthy |-> (s # "absent" \/ m # "absent" \/ p.t # "absent"),
     success |-> s, message |-> m, payload |-> p]

ObjectBodies ==
    {Object(s, "absent", p) : s \in Flag, p \in Payloads}
    \cup {Object(s, m, p) : s \in Flag, m \in Messages \ {"absent"},
                            p \in {q \in Payloads : Len(q.items) <= 1 /\ q.t # "entity"}}

PlainBody(t, truthy) ==
    [t |-> t, truthy |-> truthy, success |-> "absent", message |-> "absent",
     payload |-> NoPayload]

OtherBodies ==
    {PlainBody("empty", FALSE), PlainBody("nonjson", FALSE),
     PlainBody("null", FALSE), PlainBody("array", FALSE),
     PlainBody("array", TRUE), PlainBody("scalar", FALSE),
     PlainBody("scalar", TRUE)}

Bodies == ObjectBodies \cup OtherBodies

StatusOK == 200

Statuses == {StatusOK, 404}

NoBody == PlainBody("none", FALSE)

\* how an HTTP exchange ends
Outcomes ==
    {[kind |-> "conn_error", status |-> 0, body |-> NoBody],
     [kind |-> "timeout", status |-> 0, body |-> NoBody]}
    \cup {[kind |-> "response", status |-> s, body |-> b] :
            s \in Statuses, b \in Bodies}

NoExchange == [kind |-> "none", status |-> 0, body |-> NoBody]

None == PlainBody("None", FALSE)

(* ----------------------------- dispatcher ------------------------------ *)

\* the diagnostic line a call prints
Diag(kind, status, message) == [kind |-> kind, status |-> status, message |-> message]

NoDiag == Diag("none", 0, "absent")

\* VerbOf with the else branch falling back to GET
VerbOfDefaultsToGet(method) ==
    IF Upper(method) = POST THEN "POST"
    ELSE IF Upper(method) = DELETE THEN "DELETE"
    ELSE "GET"

\* the if / elif chain on method.upper(): the verb used on the wire, or
\* "unsupported" (the else branch)
VerbOf(method) ==
    IF Upper(method) = GET THEN "GET"
    ELSE IF Upper(method) = POST THEN "POST"
    ELSE IF Upper(method) = DELETE THEN "DELETE"
    ELSE "unsupported"

\* params are handed to the session call as they were received
Query(params) == params

\* Transmit with the request sent a second time
TransmitTwice(log, n) == Append(Append(log, n), n)

\* one session.get / post / delete call: one request on the wire, logged
\* under the number of the call that made it (0: the health probe)
Transmit(log, n) == Append(log, n)

\* response.json(): the parsed value, or the decode error of the installed
\* requests library.  From requests 2.27 on the error is
\* requests.exceptions.JSONDecodeError, a RequestException and a
\* json.JSONDecodeError at once; before, it is json.JSONDecodeError alone.
DecodeError(modern) ==
    IF modern THEN "requests.JSONDecodeError" ELSE "json.JSONDecodeError"

ResponseJson(body, modern) ==
    IF body.t \in {"empty", "nonjson"}
    THEN [exc |-> DecodeError(modern), value |-> None]
    ELSE [exc |-> "none", value |-> body]

IsRequestException(exc) ==
    exc \in {"ConnectionError", "Timeout", "requests.JSONDecodeError"}

IsJSONDecodeError(exc) ==
    exc \in {"json.JSONDecodeError", "requests.JSONDecodeError"}

\* the result of a make_request call: the exception that escapes it ("none"
\* when it returns), the diagnostic printed and the value returned
Result(raised, diag, value) == [raised |-> raised, diag |-> diag, value |-> value]

\* the try block after the session call: status check and body parsing
TryResponse(o, modern) ==
    IF o.kind = "conn_error" THEN Result("ConnectionError", NoDiag, None)
    ELSE IF o.kind = "timeout" THEN Result("Timeout", NoDiag, None)
    ELSE IF o.status = StatusOK
    THEN LET j == ResponseJson(o.body, modern)
         IN  Result(j.exc, NoDiag, j.value)
    ELSE LET j == IF o.body.t = "empty"
                  THEN [exc |-> "none", value |-> PlainBody("object", FALSE)]
                  ELSE ResponseJson(o.body, modern)
         IN  IF j.exc # "none" THEN Result(j.exc, NoDiag, None)
             ELSE IF j.value.t # "object"
             THEN Result("AttributeError", NoDiag, None)
             ELSE Result("none",
                         Diag("RequestFailed", o.status,
                              IF j.value.message = "absent"
                              THEN "Unknown error" ELSE j.value.message),
                         None)

\* the except clauses, in their order: RequestException first, then
\* json.JSONDecodeError; anything else escapes
Except(r) ==
    IF r.raised = "none" THEN r
    ELSE IF IsRequestException(r.raised)
    THEN Result("none", Diag("NetworkError", 0, r.raised), None)
    ELSE IF IsJSONDecodeError(r.raised)
    THEN Result("none", Diag("InvalidJSON", 0, "absent"), None)
    ELSE r

\* make_request once the exchange has ended with outcome o
Dispatch(o, modern) == Except(TryResponse(o, modern))

\* make_request on a verb outside the chain: no exchange
Unsupported == Result("none", Diag("UnsupportedVerb", 0, "absent"), None)

(* ------------------------------- facade -------------------------------- *)

ListOps == {"search_rooms", "get_user_applications"}

EntityOps == {"get_room_details", "get_distance_to_campus", "get_weather_forecast"}

BoolOps == {"apply_for_room", "cancel_application"}

\* what a facade operation returns
Ret(t, items, entity, flag) ==
    [t |-> t, items |-> items, entity |-> entity, flag |-> flag]

RetList(items) == Ret("list", items, NoEntity, FALSE)

RetEntity(e) == Ret("entity", <<>>, e, FALSE)

RetNone == Ret("None", <<>>, NoEntity, FALSE)

RetBool(b) == Ret("bool", <<>>, NoEntity, b)

NoReturn == Ret("raised", <<>>, NoEntity, FALSE)

Out(raised, ret) == [raised |-> raised, ret |-> ret]

\* Succeeded testing the response alone
SucceededIgnoresFlag(value) ==
    IF ~value.truthy THEN "no"
    ELSE IF value.t # "object" THEN "raise"
    ELSE "yes"

\* `response and response.get('success')`: "raise" when the value is true
\* and has no get (a JSON array, string, number or true)
Succeeded(value) ==
    IF ~value.truthy THEN "no"
    ELSE IF value.t # "object" THEN "raise"
    ELSE IF value.success = "true" THEN "yes" ELSE "no"

\* the return value on the failure branch
FailureValue(op) ==
    IF op \in ListOps THEN RetList(<<>>)
    ELSE IF op \in BoolOps THEN RetBool(FALSE)
    ELSE RetNone

Reverse(q) == [i \in 1..Len(q) |-> q[Len(q) + 1 - i]]

\* ListPayload with the sequence returned newest first
ListPayloadReversed(p) ==
    IF p.t = "absent" THEN Out("none", RetList(<<>>))
    ELSE IF p.t = "entity" THEN Out("TypeError", NoReturn)
    ELSE IF \E i \in 1..Len(p.items) : ~p.items[i].complete
    THEN Out("KeyError", NoReturn)
    ELSE Out("none", RetList(Reverse(p.items)))

\* response.get('rooms', []) / response.get('applications', []), displayed
\* one by one and returned
ListPayload(p) ==
    IF p.t = "absent" THEN Out("none", RetList(<<>>))
    ELSE IF p.t = "entity" THEN Out("TypeError", NoReturn)
    ELSE IF \E i \in 1..Len(p.items) : ~p.items[i].complete
    THEN Out("KeyError", NoReturn)
    ELSE Out("none", RetList(p.items))

\* response.get('room') / ('distance') / ('weather'), displayed and returned
EntityPayload(p) ==
    IF p.t # "entity" THEN Out("TypeError", NoReturn)
    ELSE IF ~p.entity.complete THEN Out("KeyError", NoReturn)
    ELSE Out("none", RetEntity(p.entity))

\* the body of a facade operation after its make_request call returned r
Facade(op, r) ==
    IF r.raised # "none" THEN Out(r.raised, NoReturn)
    ELSE IF op = "make_request" THEN Out("none", RetNone)
    ELSE LET s == Succeeded(r.value)
         IN  IF s = "raise" THEN Out("AttributeError", NoReturn)
             ELSE IF s = "no" THEN Out("none", FailureValue(op))
             ELSE IF op \in ListOps THEN ListPayload(r.value.payload)
             ELSE IF op \in EntityOps THEN EntityPayload(r.value.payload)
             ELSE Out("none", RetBool(TRUE))

(* ----------------------------- construction ---------------------------- *)

\* test_connection catching timeouts only
test_connection_uncaught(o) ==
    [raised |-> IF o.kind = "conn_error" THEN "ConnectionError" ELSE "none",
     ok |-> (o.kind = "response" /\ o.status = StatusOK)]

\* test_connection once the probe has ended with outcome o: the exception
\* that escapes it and the value it returns
test_connection(o) ==
    [raised |-> "none", ok |-> (o.kind = "response" /\ o.status = StatusOK)]

\* how the probe ended, as the caller of the constructor would describe it
ProbeKind(o) ==
    IF o.kind # "response" THEN o.kind
    ELSE IF o.status = StatusOK THEN "ok" ELSE "status"

(* ------------------------------- service ------------------------------- *)

\* The orchestrator service, as sections 3, 4.3 and 6 of the specification
\* describe it: the applications it can hold, each absent ("none") or in one
\* of the four statuses.
AppIds == {"a", "b"}

AppOrder == <<"a", "b">>

\* GET /api/users/{id}/applications: every application held, in the
\* service's order, cancelled_date present iff the status is cancelled
ListEnvelope(held) ==
    LET ids == SelectSeq(AppOrder, LAMBDA a : held[a] # "none")
    IN  Object("true", "absent",
               [t |-> "list",
                items |-> [i \in 1..Len(ids) |-> Application(ids[i], held[ids[i]])],
                entity |-> NoEntity])

\* the envelope of an operation that carries no payload
Envelope(ok) == Object(IF ok THEN "true" ELSE "false", "boom", NoPayload)

\* DELETE /api/applications/{id}: pending -> cancelled; anything else,
\* a cancelled application included, is reported as a failure
CanCancel(held, a) == held[a] = "pending"

\* POST /api/applications: a new application, pending
FreeIds(held) == {a \in AppIds : held[a] = "none"}

\* the service handles the request of call c: its new state and the replies
\* it may give (a refusal comes with status 200 or with an error status)
Serve(c, held) ==
    IF c.op = "get_user_applications"
    THEN {[held |-> held, status |-> StatusOK, body |-> ListEnvelope(held)]}
    ELSE IF c.op = "cancel_application"
    THEN IF CanCancel(held, c.arg)
         THEN {[held |-> [held EXCEPT ![c.arg] = "cancelled"],
                status |-> StatusOK, body |-> Envelope(TRUE)]}
         ELSE {[held |-> held, status |-> st, body |-> Envelope(FALSE)] :
                 st \in Statuses}
    ELSE IF FreeIds(held) # {}
    THEN {[held |-> [held EXCEPT ![a] = "pending"],
           status |-> StatusOK, body |-> Envelope(TRUE)] : a \in FreeIds(held)}
    ELSE {[held |-> held, status |-> st, body |-> Envelope(FALSE)] :
            st \in Statuses}

(* -------------------------------- state -------------------------------- *)

NoRaw == [k \in FilterKeys |-> <<>>]

\* BuildFilters testing the input before it is stripped
BuildFiltersUnstripped(raw) ==
    Dict([k \in {x \in FilterKeys : raw[x] # <<>>} |-> Strip(raw[k])])

\* main, choice 2: a key is set only when its stripped input is non-empty
BuildFilters(raw) ==
    Dict([k \in {x \in FilterKeys : Strip(raw[x]) # <<>>} |-> Strip(raw[k])])

\* a make_request call in progress
CallRec(n, op, via, raw, method, endpoint, arg, given, query) ==
    [n |-> n, op |-> op, via |-> via, raw |-> raw, method |-> method,
     endpoint |-> endpoint, arg |-> arg, given |-> given, query |-> query]

NoCall == CallRec(0, "none", "none", NoRaw, <<>>, "none", "none", NoParams, NoParams)

\* what the caller observes of an operation once it has ended
Completed(c, transmitted, o, r) ==
    LET f == Facade(c.op, r)
    IN  [n |-> c.n, op |-> c.op, via |-> c.via, raw |-> c.raw,
         method |-> c.method, endpoint |-> c.endpoint, arg |-> c.arg,
         given |-> c.given,
         query |-> c.query, transmitted |-> transmitted, outcome |-> o,
         dispatched |-> r, raised |-> f.raised, ret |-> f.ret]

NoLast == Completed(NoCall, FALSE, NoExchange, Result("none", NoDiag, None))

Init ==
    /\ pc = "new"
    /\ modernRequests \in BOOLEAN
    /\ probe = "none"
    /\ warned = FALSE
    /\ calls = 0
    /\ sent = <<>>
    /\ pending = NoCall
    /\ last = NoLast
    /\ apps = [a \in AppIds |-> "none"]
    /\ confirmed = [a \in AppIds |-> 0]

\* __init__ up to the health probe being on the wire
Construct ==
    /\ pc = "new"
    /\ sent' = Transmit(sent, 0)
    /\ pc' = "probing"
    /\ UNCHANGED <<modernRequests, probe, warned, calls, pending, last, apps, confirmed>>

\* the probe ends; __init__ warns when test_connection is false and returns
ProbeEnds ==
    /\ pc = "probing"
    /\ \E o \in Outcomes :
         LET t == test_connection(o)
         IN  /\ probe' = ProbeKind(o)
             /\ IF t.raised # "none"
                THEN /\ pc' = "failed"
                     /\ UNCHANGED warned
                ELSE /\ pc' = "ready"
                     /\ warned' = ~t.ok
    /\ UNCHANGED <<modernRequests, calls, sent, pending, last, apps, confirmed>>

\* make_request(method, endpoint, params=given) up to the session call, made
\* by operation op: an unsupported verb ends the operation at once
Call(op, via, raw, method, endpoint, arg, given) ==
    /\ pc = "ready"
    /\ calls < MaxCalls
    /\ calls' = calls + 1
    /\ IF VerbOf(method) = "unsupported"
       THEN /\ last' = Completed(
                   CallRec(calls + 1, op, via, raw, method, endpoint, arg, given,
                           NoParams),
                   FALSE, NoExchange, Unsupported)
            /\ UNCHANGED <<pc, sent, pending>>
       ELSE /\ sent' = Transmit(sent, calls + 1)
            /\ pending' = CallRec(calls + 1, op, via, raw, method, endpoint, arg,
                                  given, Query(given))
            /\ pc' = "waiting"
            /\ last' = NoLast
    /\ UNCHANGED <<modernRequests, probe, warned, apps, confirmed>>

\* the exchange ends with outcome o: make_request classifies it and the
\* operation returns
Return(o) ==
    /\ last' = Completed(pending, TRUE, o, Dispatch(o, modernRequests))
    /\ pc' = "ready"
    /\ pending' = NoCall
    /\ UNCHANGED <<modernRequests, probe, warned, calls, sent>>

\* the exchange ends in any way at all
Respond ==
    /\ pc = "waiting"
    /\ \E o \in Outcomes : Return(o)
    /\ UNCHANGED <<apps, confirmed>>

make_request ==
    \E m \in Methods : Call("make_request", "direct", NoRaw, m, "/api/rooms", "none", NoParams)

search_rooms ==
    \E f \in FilterDicts \cup {NoParams} :
        Call("search_rooms", "direct", NoRaw, GET, "/api/rooms", "none", f)

\* main, choice 2
MenuSearch ==
    \E raw \in [FilterKeys -> RawInputs] :
        Call("search_rooms", "menu", raw, GET, "/api/rooms", "none",
             BuildFilters(raw))

get_room_details ==
    Call("get_room_details", "direct", NoRaw, GET, "/api/rooms/{id}", "none",
         NoParams)

apply_for_room ==
    Call("apply_for_room", "direct", NoRaw, POST, "/api/applications", "none",
         NoParams)

cancel_application ==
    \E a \in AppIds :
        Call("cancel_application", "direct", NoRaw, DELETE,
             "/api/applications/{id}", a, NoParams)

get_user_applications ==
    Call("get_user_applications", "direct", NoRaw, GET,
         "/api/users/{id}/applications", "none", NoParams)

get_distance_to_campus ==
    Call("get_distance_to_campus", "direct", NoRaw, GET, "/api/distance",
         "none", Dict([k \in {"room_postcode", "campus_postcode"} |-> <<"x">>]))

get_weather_forecast ==
    Call("get_weather_forecast", "direct", NoRaw, GET, "/api/weather",
         "none", Dict([k \in {"postcode"} |-> <<"x">>]))

\* a deployment whose service already holds applications
InitService ==
    /\ pc = "new"
    /\ modernRequests \in BOOLEAN
    /\ probe = "none"
    /\ warned = FALSE
    /\ calls = 0
    /\ sent = <<>>
    /\ pending = NoCall
    /\ last = NoLast
    /\ apps \in [AppIds -> {"none", "pending"}]
    /\ confirmed = [a \in AppIds |-> 0]

\* confirmed counts, per application, the cancel_application calls that
\* returned True
Confirm(c, ret) ==
    IF c.op = "cancel_application" /\ ret = RetBool(TRUE)
    THEN [confirmed EXCEPT ![c.arg] = @ + 1]
    ELSE confirmed

\* the exchange ends against the service: the request is lost, or handled
\* with the reply lost, or handled and answered
ServiceResponds ==
    /\ pc = "waiting"
    /\ \/ /\ \E k \in {"conn_error", "timeout"} :
                Return([kind |-> k, status |-> 0, body |-> NoBody])
          /\ UNCHANGED apps
       \/ \E r \in Serve(pending, apps) :
             /\ apps' = r.held
             /\ \/ Return([kind |-> "timeout", status |-> 0, body |-> NoBody])
                \/ Return([kind |-> "response", status |-> r.status, body |-> r.body])
    /\ confirmed' = Confirm(pending, last'.ret)

\* the service decides a pending application
ServiceDecides ==
    /\ \E a \in AppIds :
         /\ apps[a] = "pending"
         /\ \E st \in {"approved", "rejected"} : apps' = [apps EXCEPT ![a] = st]
    /\ UNCHANGED <<pc, modernRequests, probe, warned, calls, sent, pending, last,
                   confirmed>>

NextService ==
    \/ Construct
    \/ ProbeEnds
    \/ apply_for_room
    \/ cancel_application
    \/ get_user_applications
    \/ ServiceResponds
    \/ ServiceDecides

SpecService == InitService /\ [][NextService]_vars

Next ==
    \/ Construct
    \/ ProbeEnds
    \/ make_request
    \/ search_rooms
    \/ MenuSearch
    \/ get_room_details
    \/ apply_for_room
    \/ cancel_application
    \/ get_user_applications
    \/ get_distance_to_campus
    \/ get_weather_forecast
    \/ Respond

Spec == Init /\ [][Next]_vars

TypeOK ==
    /\ pc \in {"new", "probing", "ready", "waiting", "failed"}
    /\ calls \in 0..MaxCalls

(* ------------------------------- claims -------------------------------- *)

\* an operation has ended and last describes it
Ended == last.n > 0

\* the exchange of the last operation ended in a response with status 200
\* whose body is an envelope with success = true
SuccessEnvelope ==
    /\ last.outcome.kind = "response"
    /\ last.outcome.status = StatusOK
    /\ last.outcome.body.t = "object"
    /\ last.outcome.body.success = "true"

\* C1: no exception escapes make_request, whatever the verb and whatever the
\* outcome of the exchange; the call returns a payload or None.
C1_NeverRaises ==
    Ended => last.dispatched.raised = "none"

\* C2: search_rooms, get_user_applications, get_room_details,
\* get_distance_to_campus and get_weather_forecast return the safe value
\* (empty sequence / None) without raising whenever the operation failed:
\* a dispatcher failure, or a 200 response without success = true.
C2_FacadeFailureSafe ==
    (Ended /\ last.op \in ListOps \cup EntityOps /\ ~SuccessEnvelope)
        => (last.raised = "none" /\ last.ret = FailureValue(last.op))

\* C3: every failed make_request call prints the diagnostic of its cause:
\* connection failure or timeout - network error; status other than 200 -
\* HTTP error; status 200 with a body that is not JSON - invalid response;
\* verb rejected - unsupported verb.
C3_FailureKinds ==
    Ended =>
        /\ ~last.transmitted => last.dispatched.diag.kind = "UnsupportedVerb"
        /\ last.outcome.kind \in {"conn_error", "timeout"}
               => last.dispatched.diag.kind = "NetworkError"
        /\ (last.outcome.kind = "response" /\ last.outcome.status # StatusOK)
               => last.dispatched.diag.kind = "RequestFailed"
        /\ (last.outcome.kind = "response" /\ last.outcome.status = StatusOK
               /\ last.outcome.body.t \in {"empty", "nonjson"})
               => last.dispatched.diag.kind = "InvalidJSON"

\* the message a non-200 response is to be reported with
ServerMessage(body) ==
    IF body.t = "object" /\ body.message # "absent"
    THEN body.message ELSE "Unknown error"

\* C4: a response with a status other than 200 is reported as an HTTP
\* failure carrying the status code and the body's message, or 'Unknown
\* error' when the body is absent, is not JSON or is not a JSON object, and
\* the call returns None.
C4_HttpErrorReport ==
    (Ended /\ last.outcome.kind = "response" /\ last.outcome.status # StatusOK)
        => /\ last.dispatched.raised = "none"
           /\ last.dispatched.value = None
           /\ last.dispatched.diag
                = Diag("RequestFailed", last.outcome.status,
                       ServerMessage(last.outcome.body))

\* the keys of a mapping whose values are non-empty
NonBlankKeys(m) == {k \in DOMAIN m.d : m.d[k] # <<>>}

\* C5 as stated: the query search_rooms forwards holds exactly the keys of
\* the mapping it was given whose values are non-empty.
C5_OnlyNonBlankForwarded ==
    (pc = "waiting" /\ pending.op = "search_rooms")
        => DOMAIN pending.query.d = NonBlankKeys(pending.given)

\* C5 amended: search_rooms forwards the mapping it was given unchanged, and
\* the mapping the menu builds holds exactly the keys whose stripped input
\* is non-empty, each with its stripped input.
C5_MenuBuildsNonBlank ==
    (pc = "waiting" /\ pending.op = "search_rooms")
        => /\ pending.query = pending.given
           /\ pending.via = "menu"
                => /\ DOMAIN pending.query.d
                        = {k \in FilterKeys : Strip(pending.raw[k]) # <<>>}
                   /\ \A k \in DOMAIN pending.query.d :
                        /\ pending.query.d[k] = Strip(pending.raw[k])
                        /\ pending.query.d[k] # <<>>

\* the menu forwarded one key and left out a blank input and an empty one
C5_Witness ==
    /\ pc = "waiting"
    /\ pending.op = "search_rooms"
    /\ pending.via = "menu"
    /\ pending.raw["city"] = <<" ", "x", " ">>
    /\ pending.raw["max_price"] = <<" ">>
    /\ DOMAIN pending.query.d = {"city"}

\* C6: on a success envelope whose rooms entry is a sequence R of Room
\* entities, search_rooms returns R, same elements in the same order; on
\* one whose distance entry is a DistanceInfo, get_distance_to_campus
\* returns that entry.
C6_PayloadUnchanged ==
    (Ended /\ SuccessEnvelope) =>
        /\ (/\ last.op = "search_rooms"
             /\ last.outcome.body.payload.t = "list"
             /\ \A i \in 1..Len(last.outcome.body.payload.items) :
                    last.outcome.body.payload.items[i].complete)
               => /\ last.raised = "none"
                  /\ last.ret = RetList(last.outcome.body.payload.items)
        /\ (/\ last.op = "get_distance_to_campus"
             /\ last.outcome.body.payload.t = "entity"
             /\ last.outcome.body.payload.entity.complete)
               => /\ last.raised = "none"
                  /\ last.ret = RetEntity(last.outcome.body.payload.entity)

\* search_rooms returned two rooms that the service sent as b, a
C6_Witness ==
    /\ Ended
    /\ SuccessEnvelope
    /\ last.op = "search_rooms"
    /\ last.ret.t = "list"
    /\ Len(last.ret.items) = 2
    /\ last.ret.items[1].id = "b"
    /\ last.ret.items[2].id = "a"

\* C7: the constructor returns whatever the probe did, warning exactly when
\* the probe did not end in a 200 response.
C7_ConstructionCompletes ==
    /\ pc # "failed"
    /\ pc \in {"ready", "waiting"} => (warned <=> probe # "ok")

\* the probe was refused, the client warned, and a later search_rooms call
\* returned a room
C7_Witness ==
    /\ probe = "conn_error"
    /\ warned
    /\ Ended
    /\ last.op = "search_rooms"
    /\ last.raised = "none"
    /\ last.ret.t = "list"
    /\ Len(last.ret.items) = 1

SupportedVerbs == {GET, POST, DELETE}

\* C9 as stated: a call whose verb is not GET, POST or DELETE sends nothing,
\* returns None and reports an unsupported verb.
C9_OutsideSetRejected ==
    /\ pc = "waiting" => pending.method \in SupportedVerbs
    /\ (Ended /\ last.method \notin SupportedVerbs)
          => /\ ~last.transmitted
             /\ last.dispatched = Unsupported

\* C9 amended: a call whose verb, upper-cased, is not GET, POST or DELETE
\* sends nothing (no request of the wire log is its), returns None and
\* reports an unsupported verb.
C9_UnsupportedVerbLocal ==
    /\ pc = "waiting" => Upper(pending.method) \in SupportedVerbs
    /\ (Ended /\ Upper(last.method) \notin SupportedVerbs)
          => /\ ~last.transmitted
             /\ \A i \in 1..Len(sent) : sent[i] # last.n
             /\ last.dispatched = Unsupported
             /\ last.raised = "none"

\* make_request('PUT', ...) ended as the second call with nothing sent for it
C9_Witness ==
    /\ Ended
    /\ last.n = 2
    /\ last.method = <<"P", "U", "T">>
    /\ ~last.transmitted
    /\ last.dispatched.diag.kind = "UnsupportedVerb"
    /\ sent = <<0, 1>>

\* C10: the wire log holds at most one request per call, in the order the
\* calls were issued, and none for a call not yet issued; a call that failed
\* is not sent again.
C10_SingleAttemptInOrder ==
    /\ \A i, j \in 1..Len(sent) : i < j => sent[i] < sent[j]
    /\ \A i \in 1..Len(sent) : sent[i] <= calls
    /\ Len(sent) <= calls + 1

\* the second call failed on the network after a first one was sent: three
\* requests in all, the probe included
C10_Witness ==
    /\ Ended
    /\ last.n = 2
    /\ last.dispatched.diag.kind = "NetworkError"
    /\ sent = <<0, 1, 2>>

\* the last get_user_applications result holds application a as cancelled
ListedCancelled(a) ==
    \E i \in 1..Len(last.ret.items) :
        /\ last.ret.items[i].id = a
        /\ last.ret.items[i].status = "cancelled"
        /\ last.ret.items[i].cancelled_date

\* C8 as stated: once cancel_application returned True for a, every later
\* get_user_applications result holds a as cancelled with a cancelled_date,
\* and no second cancel_application on a returns True.
C8_CancelledInEveryLaterList ==
    /\ (Ended /\ last.op = "get_user_applications")
          => \A a \in AppIds : confirmed[a] > 0 => ListedCancelled(a)
    /\ \A a \in AppIds : confirmed[a] <= 1

\* C8 amended: once cancel_application returned True for a, every later
\* get_user_applications call whose exchange ends in a success envelope
\* returns a result that holds a as cancelled with a cancelled_date, and no
\* second cancel_application on a returns True.
C8_CancelledInLaterSuccessfulList ==
    /\ (Ended /\ last.op = "get_user_applications" /\ SuccessEnvelope)
          => \A a \in AppIds : confirmed[a] > 0 => ListedCancelled(a)
    /\ \A a \in AppIds : confirmed[a] <= 1

\* a was cancelled with success and the list fetched afterwards shows it
C8_Witness ==
    /\ Ended
    /\ last.op = "get_user_applications"
    /\ confirmed["a"] = 1
    /\ ListedCancelled("a")

====
